---- MODULE Spec2Model ----
(***************************************************************************)
(* Notification status store and reconciliation of xiaohongshu-mcp.        *)
(* The notifications table is a set of rows; every SQL statement of the    *)
(* store is an operator on that set, every store method an action.         *)
(***************************************************************************)
EXTENDS Integers, Sequences, FiniteSets, TLC

VARIABLES notifications, meta, now, retryCalls, last,
          globalStore, storeOnce, mu, calls

\* the package variables globalStore and storeOnce, the mutex s.mu, and the
\* calls the goroutines have in progress
callVars == <<globalStore, storeOnce, mu, calls>>

vars == <<notifications, meta, now, retryCalls, last,
          globalStore, storeOnce, mu, calls>>

----------------------------------------------------------------------------
(* Bounds of the model *)

\* the clock runs over MaxTime seconds
MaxTime == 2
\* MarkResult(retry) is accepted at most this many times per ID
MaxRetryCalls == 2
\* longest batch handed to UpsertNotifications
MaxBatch == 2
\* most items the external source holds in one scan
MaxFeed == 2
\* items the external source returns per page
PageSize == 1
\* largest max_pages and max_results a caller passes
MaxArg == 2
\* goroutines that call the store at the same time
MaxThreads == 2
\* calls one goroutine makes, one after the other
MaxCalls == 2

----------------------------------------------------------------------------
(* NotificationStatus *)

StatusPending == "pending"
StatusReplied == "replied"
StatusSkipped == "skipped"
StatusRetry == "retry"
StatusDeletedCheck == "deleted_check"

OpenStatuses == {StatusPending, StatusRetry, StatusDeletedCheck}
ClosedStatuses == {StatusReplied, StatusSkipped}

\* MarkResult takes any NotificationStatus string; "archived" is one that is
\* none of the five constants
MarkStatuses == OpenStatuses \cup ClosedStatuses \cup {"archived"}

\* reply_content written by AutoSkipExcessiveRetries (the source has the
\* Chinese text for "auto-skipped: retry count over the limit")
AutoSkipReply == "auto-skipped: retry count over the limit"

\* reply text a caller reports with an outcome
ReplyContents == {"ok"}

\* notification ids are strings, kept as sequences of characters
IDs == {<<"1">>, <<"2">>}

\* xhsEpochMs / 1000: 2013-01-01 00:00:00 UTC in Unix seconds
XhsEpochSec == 1356998400

\* time.Now().Unix(): the seconds the clock can show
Times == {XhsEpochSec + k : k \in 1..MaxTime}

----------------------------------------------------------------------------
(* NotificationRecord as the caller of UpsertNotifications builds it.      *)
(* Two observations exist per ID: they differ in every display column and  *)
(* in the Status, RetryCount and ReplyContent the input carries.           *)

Variants == {"a", "b"}

NotificationRecord(id, v) ==
    [ID |-> id,
     Status |-> IF v = "a" THEN StatusPending ELSE StatusReplied,
     RetryCount |-> IF v = "a" THEN 0 ELSE 3,
     FeedID |-> "feed-" \o v,
     XsecToken |-> "tok-" \o v,
     CommentID |-> "c-" \o v,
     ParentCommentID |-> IF v = "a" THEN "" ELSE "p-b",
     CommentContent |-> "text-" \o v,
     UserID |-> "u-" \o v,
     UserNickname |-> "nick-" \o v,
     NoteTitle |-> "note-" \o v,
     RelationType |-> IF v = "a" THEN "comment_on_my_note" ELSE "reply_to_my_comment",
     NotifTimeUnix |-> IF v = "a" THEN XhsEpochSec + 1 ELSE XhsEpochSec + 2,
     ReplyContent |-> IF v = "a" THEN "" ELSE "ok",
     UpdatedAt |-> 0,
     CreatedAt |-> 0]

InputRecords == {NotificationRecord(id, v) : id \in IDs, v \in Variants}

RECURSIVE SeqsUpTo(_, _)
SeqsUpTo(S, n) ==
    IF n = 0 THEN {<<>>}
    ELSE LET shorter == SeqsUpTo(S, n - 1)
         IN  shorter \cup {Append(s, x) : s \in {q \in shorter : Len(q) = n - 1}, x \in S}

Batches == SeqsUpTo(InputRecords, MaxBatch)

\* the IDs a batch carries
BatchIDs(records) == {records[i].ID : i \in 1..Len(records)}

----------------------------------------------------------------------------
(* The notifications table: schema of migrate() and its statements *)

\* a row with the column defaults of CREATE TABLE notifications
DefaultRow(id) ==
    [id |-> id, status |-> StatusPending, retry_count |-> 0,
     feed_id |-> "", xsec_token |-> "", comment_id |-> "",
     parent_comment_id |-> "", comment_content |-> "", user_id |-> "",
     user_nickname |-> "", note_title |-> "", relation_type |-> "",
     notif_time_unix |-> 0, reply_content |-> "", updated_at |-> 0,
     created_at |-> 0]

RowIDs(rows) == {r.id : r \in rows}

\* id TEXT PRIMARY KEY
PrimaryKey(rows) == \A r1, r2 \in rows : r1.id = r2.id => r1 = r2

\* a VALUES list that stores the Status, RetryCount and ReplyContent the
\* input record carries
UpsertRowCarryingOutcome(r, t) ==
    [DefaultRow(r.ID) EXCEPT
        !.status = r.Status, !.retry_count = r.RetryCount,
        !.reply_content = r.ReplyContent, !.feed_id = r.FeedID,
        !.xsec_token = r.XsecToken, !.comment_id = r.CommentID,
        !.parent_comment_id = r.ParentCommentID,
        !.comment_content = r.CommentContent, !.user_id = r.UserID,
        !.user_nickname = r.UserNickname, !.note_title = r.NoteTitle,
        !.relation_type = r.RelationType,
        !.notif_time_unix = r.NotifTimeUnix, !.created_at = t,
        !.updated_at = t]

\* the VALUES list of the INSERT OR IGNORE of UpsertNotifications
UpsertRow(r, t) ==
    [DefaultRow(r.ID) EXCEPT
        !.status = StatusPending, !.feed_id = r.FeedID,
        !.xsec_token = r.XsecToken, !.comment_id = r.CommentID,
        !.parent_comment_id = r.ParentCommentID,
        !.comment_content = r.CommentContent, !.user_id = r.UserID,
        !.user_nickname = r.UserNickname, !.note_title = r.NoteTitle,
        !.relation_type = r.RelationType,
        !.notif_time_unix = r.NotifTimeUnix, !.created_at = t,
        !.updated_at = t]

\* INSERT OR REPLACE: the conflicting row is deleted and the new one stored
InsertOrReplace(rows, row) ==
    {r \in rows : r.id # row.id} \cup {row}

\* INSERT into a table whose id column is no key: the row is always stored
InsertAlways(rows, row) == rows \cup {row}

\* INSERT OR IGNORE: a row whose primary key exists is dropped silently
InsertOrIgnore(rows, row) ==
    IF row.id \in RowIDs(rows) THEN rows ELSE rows \cup {row}

\* the loop of stmt.Exec over the batch, in order
RECURSIVE UpsertRows(_, _, _)
UpsertRows(rows, records, t) ==
    IF records = <<>> THEN rows
    ELSE UpsertRows(InsertOrIgnore(rows, UpsertRow(Head(records), t)),
                    Tail(records), t)

\* an UPDATE that counts every call: retry_count=retry_count+1 for any status
MarkUpdateCountingAll(rows, id, status, replyContent, t) ==
    {IF r.id # id THEN r
     ELSE [r EXCEPT !.status = status, !.reply_content = replyContent,
                    !.updated_at = t, !.retry_count = r.retry_count + 1]
     : r \in rows}

\* an UPDATE that also writes created_at=?
MarkUpdateTouchingCreated(rows, id, status, replyContent, t) ==
    {IF r.id # id THEN r
     ELSE [r EXCEPT !.status = status, !.reply_content = replyContent,
                    !.updated_at = t, !.created_at = t,
                    !.retry_count = IF status = StatusRetry
                                    THEN r.retry_count + 1 ELSE r.retry_count]
     : r \in rows}

\* UPDATE notifications SET status=?, reply_content=?, updated_at=?
\* [, retry_count=retry_count+1] WHERE id=?
MarkUpdate(rows, id, status, replyContent, t) ==
    {IF r.id # id THEN r
     ELSE IF status = StatusRetry
          THEN [r EXCEPT !.status = status, !.reply_content = replyContent,
                         !.updated_at = t, !.retry_count = r.retry_count + 1]
          ELSE [r EXCEPT !.status = status, !.reply_content = replyContent,
                         !.updated_at = t]
     : r \in rows}

\* result.RowsAffected() of that UPDATE: the rows its WHERE clause matches
MarkRowsAffected(rows, id) == Cardinality({r \in rows : r.id = id})

\* an INSERT that leaves status to the column default
MarkInsertDefaultStatus(rows, id, status, replyContent, t) ==
    rows \cup {[DefaultRow(id) EXCEPT !.reply_content = replyContent,
                                      !.updated_at = t, !.created_at = t]}

\* INSERT INTO notifications (id, status, reply_content, updated_at, created_at)
MarkInsert(rows, id, status, replyContent, t) ==
    rows \cup {[DefaultRow(id) EXCEPT !.status = status,
                                      !.reply_content = replyContent,
                                      !.updated_at = t, !.created_at = t]}

\* WHERE status='retry' AND retry_count > ?
AutoSkipWhereOver(r, maxRetries) ==
    r.status = StatusRetry /\ r.retry_count > maxRetries

\* WHERE retry_count >= ?
AutoSkipWhereAnyStatus(r, maxRetries) ==
    r.retry_count >= maxRetries

\* WHERE status='retry' AND retry_count >= ?
AutoSkipWhere(r, maxRetries) ==
    r.status = StatusRetry /\ r.retry_count >= maxRetries

\* DELETE FROM notifications WHERE status='retry' AND retry_count >= ?
AutoSkipDelete(rows, maxRetries, t) ==
    {r \in rows : ~AutoSkipWhere(r, maxRetries)}

\* UPDATE notifications SET status='skipped', reply_content=..., updated_at=?
\* WHERE status='retry' AND retry_count >= ?
AutoSkipUpdate(rows, maxRetries, t) ==
    {IF AutoSkipWhere(r, maxRetries)
     THEN [r EXCEPT !.status = StatusSkipped, !.reply_content = AutoSkipReply,
                    !.updated_at = t]
     ELSE r
     : r \in rows}

AutoSkipRowsAffected(rows, maxRetries) ==
    Cardinality({r \in rows : AutoSkipWhere(r, maxRetries)})

----------------------------------------------------------------------------
(* The meta table: value is TEXT, written with Sprintf("%d") and read back  *)
(* with Sscanf("%d")                                                        *)

DigitChars == <<"0", "1", "2", "3", "4", "5", "6", "7", "8", "9">>

\* the value of each digit character
DigitValues == [c \in {DigitChars[i] : i \in 1..10} |->
                  (CHOOSE i \in 1..10 : DigitChars[i] = c) - 1]

IsDigit(c) == c \in DOMAIN DigitValues

DigitValue(c) == DigitValues[c]

\* fmt.Sprintf("%d", n)
RECURSIVE SprintfNat(_)
SprintfNat(n) ==
    IF n < 10 THEN <<DigitChars[n + 1]>>
    ELSE Append(SprintfNat(n \div 10), DigitChars[(n % 10) + 1])

Sprintf(n) == IF n < 0 THEN <<"-">> \o SprintfNat(0 - n) ELSE SprintfNat(n)

\* 1 << 22: the low bits of a snowflake ID, below the millisecond clock
SnowflakeLowBits == 4194304

\* 1 << 20: a uint64 is three limbs a, b, c with value
\* (a * 2^22 + b) * 2^22 + c, where b, c < 2^22 and a < 2^20; the model
\* checker's own integers are narrower than 64 bits
Uint64TopLimb == 1048576

UintZero == [a |-> 0, b |-> 0, c |-> 0, over |-> FALSE]

\* u * 10 + d modulo 2^64, never over
UintStepWrapping(u, d) ==
    LET c1 == u.c * 10 + d
        b1 == u.b * 10 + (c1 \div SnowflakeLowBits)
        a1 == u.a * 10 + (b1 \div SnowflakeLowBits)
    IN  [a |-> a1 % Uint64TopLimb, b |-> b1 % SnowflakeLowBits,
         c |-> c1 % SnowflakeLowBits, over |-> FALSE]

\* u * 10 + d; over once the value has passed 2^64 - 1
UintStep(u, d) ==
    LET c1 == u.c * 10 + d
        b1 == u.b * 10 + (c1 \div SnowflakeLowBits)
        a1 == u.a * 10 + (b1 \div SnowflakeLowBits)
    IN  [a |-> a1 % Uint64TopLimb, b |-> b1 % SnowflakeLowBits,
         c |-> c1 % SnowflakeLowBits, over |-> u.over \/ a1 >= Uint64TopLimb]

\* the number written by the digits s[i..j], read left to right from u
RECURSIVE DigitsValue(_, _, _, _)
DigitsValue(s, i, j, u) ==
    IF i > j THEN u
    ELSE CHOOSE r \in {DigitsValue(s, i + 1, j, w) :
                          w \in {UintStep(u, DigitValue(s[i]))}} : TRUE

\* the index after the blanks that start at s[i]
RECURSIVE SkipSpace(_, _)
SkipSpace(s, i) ==
    IF i <= Len(s) /\ s[i] = " " THEN SkipSpace(s, i + 1) ELSE i

\* the index after the digits that start at s[i]
RECURSIVE DigitPrefix(_, _)
DigitPrefix(s, i) ==
    IF i <= Len(s) /\ IsDigit(s[i]) THEN DigitPrefix(s, i + 1) ELSE i

\* fmt.Sscanf(s, "%d", &v) for a uint64 v: leading blanks are skipped, the
\* digits that follow are the number, anything after them is left unread;
\* no digit, or a number over 2^64 - 1, is an error and v keeps its zero value
SscanfUint(s) ==
    CHOOSE r \in
       {IF to = from THEN [err |-> TRUE, v |-> UintZero]
        ELSE LET u == DigitsValue(s, from, to - 1, UintZero)
             IN  IF u.over THEN [err |-> TRUE, v |-> UintZero]
                 ELSE [err |-> FALSE, v |-> u] :
          from \in {SkipSpace(s, 1)}, to \in {DigitPrefix(s, SkipSpace(s, 1))}} : TRUE

\* the int64 of a value that fits the model checker's integers
IntOf(u) == (u.a * SnowflakeLowBits + u.b) * SnowflakeLowBits + u.c

\* the index after the blanks and the optional sign that start s
SignEnd(s) ==
    LET body == SkipSpace(s, 1)
    IN  IF body <= Len(s) /\ s[body] \in {"-", "+"} THEN body + 1 ELSE body

\* fmt.Sscanf(s, "%d", &t) for an int64 t: as above, after an optional sign;
\* the number is at most 2^63 - 1, or 2^63 after a minus sign
SscanfInt(s) ==
    CHOOSE r \in
       {IF to = from THEN [err |-> TRUE, v |-> 0]
        ELSE LET u == DigitsValue(s, from, to - 1, UintZero)
                 minus == from > 1 /\ s[from - 1] = "-"
             IN  IF \/ u.over
                    \/ 2 * u.a > Uint64TopLimb
                    \/ 2 * u.a = Uint64TopLimb /\ ~(minus /\ u.b = 0 /\ u.c = 0)
                 THEN [err |-> TRUE, v |-> 0]
                 ELSE [err |-> FALSE,
                       v |-> IF minus THEN 0 - IntOf(u) ELSE IntOf(u)] :
          from \in {SignEnd(s)}, to \in {DigitPrefix(s, SignEnd(s))}} : TRUE

LastFetchKey == "last_fetch_time"

\* INSERT OR IGNORE INTO meta(key, value) VALUES('last_fetch_time', ?)
MetaInsertIgnore(rows, value) ==
    IF \E r \in rows : r.key = LastFetchKey THEN rows
    ELSE rows \cup {[key |-> LastFetchKey, value |-> value]}

\* INSERT INTO meta(key, value) VALUES('last_fetch_time', ?)
\* ON CONFLICT(key) DO UPDATE SET value=excluded.value
MetaUpsert(rows, value) ==
    {r \in rows : r.key # LastFetchKey} \cup {[key |-> LastFetchKey, value |-> value]}

\* SELECT value FROM meta WHERE key='last_fetch_time', scanned with "%d":
\* 0 when the row is absent, else the parsed value
LastFetchTimeOf(rows) ==
    IF \A r \in rows : r.key # LastFetchKey THEN 0
    ELSE CHOOSE t \in {SscanfInt(r.value).v :
                          r \in {x \in rows : x.key = LastFetchKey}} : TRUE

\* GetLastFetchTime: the query on the meta table as it is
GetLastFetchTime == LastFetchTimeOf(meta)

----------------------------------------------------------------------------
(* Store methods. Each runs under s.mu, so each is one step. A statement    *)
(* of the database may fail: fault names the statement that does.           *)

Threads == 1..MaxThreads

\* a nil pointer, a nil error
Nil == "nil"

\* s.mu is unlocked, or locked by the goroutine whose number it holds
Unlocked == 0

\* the *NotificationStore that newNotificationStore returns
TheStore == "store"

\* a goroutine between calls: done holds what its calls returned
Idle == [pc |-> "idle", done |-> <<>>]

\* the store has been opened, no call is in progress
Opened ==
    /\ globalStore = TheStore
    /\ storeOnce = "done"
    /\ mu = Unlocked
    /\ calls = [t \in Threads |-> Idle]

Init ==
    /\ notifications = {}
    /\ meta = {}
    /\ now = XhsEpochSec + 1
    /\ retryCalls = [id \in IDs |-> 0]
    /\ last = [op |-> "init"]
    /\ Opened

\* time.Now().Unix() moves on between calls
Tick ==
    /\ now + 1 \in Times
    /\ now' = now + 1
    /\ last' = [op |-> "Tick"]
    /\ UNCHANGED <<notifications, meta, retryCalls>>
    /\ UNCHANGED callVars

UpsertFaults == {"none", "begin", "prepare", "exec", "commit"}

\* the statements run without a transaction: the rows stored before the
\* failing Exec stay, and a failed Commit undoes nothing
UpsertNotificationsAutocommit(records, fault) ==
    /\ fault = "exec" => records # <<>>
    /\ notifications' =
          IF fault \in {"none", "commit"}
          THEN UpsertRows(notifications, records, now)
          ELSE IF fault = "exec"
               THEN UpsertRows(notifications,
                               SubSeq(records, 1, Len(records) - 1), now)
               ELSE notifications
    /\ last' = IF fault = "none"
                THEN [op |-> "UpsertNotifications", err |-> FALSE,
                      ids |-> BatchIDs(records)]
                ELSE [op |-> "UpsertNotifications", err |-> TRUE,
                      fault |-> fault]
    /\ UNCHANGED <<meta, now, retryCalls>>
    /\ UNCHANGED callVars

\* tx.Rollback() is deferred: a failed Begin, Prepare, Exec or Commit leaves
\* the table as it was
UpsertNotifications(records, fault) ==
    /\ fault = "exec" => records # <<>>
    /\ notifications' = IF fault = "none"
                        THEN UpsertRows(notifications, records, now)
                        ELSE notifications
    /\ last' = IF fault = "none"
                THEN [op |-> "UpsertNotifications", err |-> FALSE,
                      ids |-> BatchIDs(records)]
                ELSE [op |-> "UpsertNotifications", err |-> TRUE,
                      fault |-> fault]
    /\ UNCHANGED <<meta, now, retryCalls>>
    /\ UNCHANGED callVars

MarkFaults == {"none", "update", "insert"}

MarkResult(id, status, replyContent, fault) ==
    LET rows == MarkRowsAffected(notifications, id)
        \* the UPDATE failed, or it matched no row and the INSERT failed
        err == fault = "update" \/ (rows = 0 /\ fault = "insert")
    IN  /\ status = StatusRetry => retryCalls[id] < MaxRetryCalls
        /\ fault = "insert" => rows = 0
        /\ notifications' =
              IF fault = "update" THEN notifications
              ELSE IF rows = 0
                   THEN IF fault = "insert" THEN notifications
                        ELSE MarkInsert(notifications, id, status, replyContent, now)
                   ELSE MarkUpdate(notifications, id, status, replyContent, now)
        /\ retryCalls' = IF status = StatusRetry /\ ~err
                         THEN [retryCalls EXCEPT ![id] = @ + 1]
                         ELSE retryCalls
        /\ last' = IF err
                    THEN [op |-> "MarkResult", err |-> TRUE]
                    ELSE [op |-> "MarkResult", err |-> FALSE, id |-> id,
                          status |-> status, replyContent |-> replyContent]
        /\ UNCHANGED <<meta, now>>
        /\ UNCHANGED callVars

ExecFaults == {"none", "exec"}

AutoSkipExcessiveRetries(maxRetries, fault) ==
    /\ notifications' = IF fault = "none"
                        THEN AutoSkipUpdate(notifications, maxRetries, now)
                        ELSE notifications
    /\ last' = IF fault = "none"
                THEN [op |-> "AutoSkipExcessiveRetries", err |-> FALSE,
                      n |-> AutoSkipRowsAffected(notifications, maxRetries)]
                ELSE [op |-> "AutoSkipExcessiveRetries", err |-> TRUE, n |-> 0]
    /\ UNCHANGED <<meta, now, retryCalls>>
    /\ UNCHANGED callVars

SetLastFetchTime(unixSec, fault) ==
    /\ meta' = IF fault = "none" THEN MetaUpsert(meta, Sprintf(unixSec)) ELSE meta
    /\ last' = IF fault = "none"
                THEN [op |-> "SetLastFetchTime", err |-> FALSE,
                      unixSec |-> unixSec]
                ELSE [op |-> "SetLastFetchTime", err |-> TRUE]
    /\ UNCHANGED <<notifications, now, retryCalls>>
    /\ UNCHANGED callVars

----------------------------------------------------------------------------
(* Read queries of the store *)

\* SELECT id FROM notifications WHERE status IN ('replied')
GetRepliedIDsOnly(rows) == {r.id : r \in {q \in rows : q.status = StatusReplied}}

\* SELECT id FROM notifications WHERE status IN ('replied', 'skipped')
GetProcessedIDs(rows) ==
    {r.id : r \in {q \in rows : q.status \in {StatusReplied, StatusSkipped}}}

\* SELECT id FROM notifications WHERE status='retry'
GetRetryIDs(rows) == {r.id : r \in {q \in rows : q.status = StatusRetry}}

\* SELECT id FROM notifications WHERE status='deleted_check'
GetDeletedCheckIDs(rows) ==
    {r.id : r \in {q \in rows : q.status = StatusDeletedCheck}}

\* GetPendingIDs: SELECT id, status FROM notifications
\* WHERE status IN ('pending', 'retry', 'deleted_check'), as a map
GetPendingIDs(rows) ==
    [id \in {r.id : r \in {q \in rows : q.status \in
                 {StatusPending, StatusRetry, StatusDeletedCheck}}} |->
        (CHOOSE r \in rows : r.id = id).status]

\* SELECT status, COUNT(*) FROM notifications without the GROUP BY: every
\* status is given the count of the whole table
StatsUngrouped(rows) ==
    [st \in {r.status : r \in rows} |-> Cardinality(rows)]

\* Stats: SELECT status, COUNT(*) FROM notifications GROUP BY status, as a map
Stats(rows) ==
    [st \in {r.status : r \in rows} |-> Cardinality({r \in rows : r.status = st})]

\* WHERE status IN ('pending', 'retry')
PendingWhereNoDeletedCheck(r) == r.status \in {StatusPending, StatusRetry}

\* WHERE status IN ('pending', 'retry', 'deleted_check')
PendingWhere(r) ==
    r.status \in {StatusPending, StatusRetry, StatusDeletedCheck}

\* the sequences that hold each element of S once
RECURSIVE Orderings(_)
Orderings(S) ==
    IF S = {} THEN {<<>>}
    ELSE UNION {{<<x>> \o rest : rest \in Orderings(S \ {x})} : x \in S}

\* GetPendingRecords: the open rows, ORDER BY notif_time_unix DESC; rows of
\* equal time come in an order the database chooses
GetPendingRecords(rows) ==
    {recs \in Orderings({r \in rows : PendingWhere(r)}) :
        \A i \in 1..(Len(recs) - 1) :
           recs[i].notif_time_unix >= recs[i + 1].notif_time_unix}

----------------------------------------------------------------------------
(* parseIDSet and extractSinceUnixFromIDs *)

\* strings.TrimSpace
RECURSIVE TrimRight(_)
TrimRight(s) ==
    IF s # <<>> /\ s[Len(s)] = " " THEN TrimRight(SubSeq(s, 1, Len(s) - 1)) ELSE s

TrimSpace(s) == TrimRight(SubSeq(s, SkipSpace(s, 1), Len(s)))

\* strings.Split(s, ",")
RECURSIVE Split(_)
Split(s) ==
    IF \A i \in 1..Len(s) : s[i] # ","
    THEN <<s>>
    ELSE LET i == CHOOSE k \in 1..Len(s) :
                     s[k] = "," /\ \A j \in 1..(k - 1) : s[j] # ","
         IN  <<SubSeq(s, 1, i - 1)>> \o Split(SubSeq(s, i + 1, Len(s)))

\* an argument of the tool call: absent, a JSON array of strings, or a string
NilArg == [kind |-> "nil", items |-> <<>>, val |-> <<>>]
ArrayArg(items) == [kind |-> "array", items |-> items, val |-> <<>>]
StringArg(val) == [kind |-> "string", items |-> <<>>, val |-> val]

parseIDSet(v) ==
    IF v.kind = "array"
    THEN {v.items[i] : i \in {k \in 1..Len(v.items) : v.items[k] # <<>>}}
    ELSE IF v.kind = "string" /\ v.val # <<>>
    THEN LET parts == Split(v.val)
         IN  {TrimSpace(parts[i]) :
                 i \in {k \in 1..Len(parts) : TrimSpace(parts[k]) # <<>>}}
    ELSE {}

\* the 5 minutes the decoded time is moved back by
SinceMargin == 300

\* v > minID
UintGreater(x, y) ==
    \/ x.a > y.a
    \/ x.a = y.a /\ x.b > y.b
    \/ x.a = y.a /\ x.b = y.b /\ x.c > y.c

\* v < minID on uint64 values
UintLess(x, y) ==
    \/ x.a < y.a
    \/ x.a = y.a /\ x.b < y.b
    \/ x.a = y.a /\ x.b = y.b /\ x.c < y.c

\* extractSinceUnixFromIDs(sets...): sets is the sequence of the ID sets.
\* minID >> 22 is the value of the limbs a, b; (xhsEpochMs + msOffset) / 1000
\* is computed as XhsEpochSec + msOffset / 1000, equal to it because
\* xhsEpochMs is XhsEpochSec * 1000 and msOffset >= 0, and msOffset / 1000
\* limb by limb.
extractSinceUnixFromIDs(sets) ==
    LET ids == UNION {sets[i] : i \in 1..Len(sets)}
        scanned == {SscanfUint(id) : id \in ids}
        parsed == {p.v : p \in {x \in scanned : ~x.err /\ x.v # UintZero}}
    IN  IF parsed = {} THEN 0
        ELSE LET minID == CHOOSE x \in parsed : \A y \in parsed : ~UintLess(y, x)
                 msOffsetSec ==
                    minID.a * (SnowflakeLowBits \div 1000)
                       + (minID.a * (SnowflakeLowBits % 1000) + minID.b) \div 1000
             IN  XhsEpochSec + msOffsetSec - SinceMargin

----------------------------------------------------------------------------
(* The scan of the external source (xiaohongshuService.                     *)
(* GetUnprocessedNotifications), after section 4.3 of the specification:    *)
(* steps 3 and 4.                                                           *)

\* the external source: notifications with distinct IDs, newest first
Feeds ==
    {f \in SeqsUpTo({NotificationRecord(id, "a") : id \in IDs}, MaxFeed) :
        /\ \A i, j \in 1..Len(f) : i # j => f[i].ID # f[j].ID
        /\ \A i \in 1..(Len(f) - 1) : f[i].NotifTimeUnix >= f[i + 1].NotifTimeUnix}

PageOf(i) == ((i - 1) \div PageSize) + 1

ScanStart ==
    [entries |-> <<>>, scannedIDs |-> {}, run |-> 0, stopped |-> FALSE,
     pagesScanned |-> 0, totalScanned |-> 0, totalSkipped |-> 0,
     totalTooOld |-> 0]

\* one item: skipped when closed, dropped when older than the lower bound,
\* else tagged retry, deleted_check or new; a run of stopAfter closed items
\* ends the scan
ScanItem(acc, item, q) ==
    LET seen == [acc EXCEPT !.totalScanned = @ + 1,
                            !.scannedIDs = @ \cup {item.ID}]
    IN  IF item.ID \in q.processed
        THEN [seen EXCEPT !.totalSkipped = @ + 1, !.run = @ + 1,
                          !.stopped = (acc.run + 1 >= q.stopAfter)]
        ELSE IF item.NotifTimeUnix < q.sinceUnix
        THEN [seen EXCEPT !.totalTooOld = @ + 1, !.run = 0]
        ELSE [seen EXCEPT !.run = 0,
                !.entries = Append(@,
                   [id |-> item.ID,
                    tier |-> IF item.ID \in q.retryIDs THEN "retry"
                             ELSE IF item.ID \in q.deletedCheckIDs
                                  THEN "deleted_check" ELSE "new",
                    record |-> item])]

RECURSIVE ScanFrom(_, _, _, _)
ScanFrom(feed, i, acc, q) ==
    IF i > Len(feed) \/ acc.stopped \/ PageOf(i) > q.maxPages THEN acc
    ELSE ScanFrom(feed, i + 1,
                  [ScanItem(acc, feed[i], q) EXCEPT !.pagesScanned = PageOf(i)],
                  q)

Tiered(entries, tier) ==
    Cardinality({i \in 1..Len(entries) : entries[i].tier = tier})

\* q: processed, retryIDs, deletedCheckIDs, maxPages, stopAfter, sinceUnix,
\* maxResults
ScanSource(feed, q) ==
    LET acc == ScanFrom(feed, 1, ScanStart, q)
        kept == IF Len(acc.entries) > q.maxResults
                THEN SubSeq(acc.entries, 1, q.maxResults) ELSE acc.entries
    IN  [Notifications |-> kept,
         HasMore |-> Len(acc.entries) > q.maxResults,
         ScannedIDs |-> acc.scannedIDs,
         PagesScanned |-> acc.pagesScanned,
         TotalScanned |-> acc.totalScanned,
         TotalSkipped |-> acc.totalSkipped,
         TotalTooOld |-> acc.totalTooOld,
         TotalNew |-> Tiered(acc.entries, "new"),
         TotalRetry |-> Tiered(acc.entries, "retry"),
         TotalDeletedRecheck |-> Tiered(acc.entries, "deleted_check")]

Tagged(entries) ==
    [i \in 1..Len(entries) |-> [id |-> entries[i].id, tier |-> entries[i].tier]]

----------------------------------------------------------------------------
(* get_pending_work, after section 4.3 of the specification *)

DefaultMaxPages == 3
DefaultStopAfter == 5
NoEarlyStop == 999999
DefaultSinceHours == 48
DefaultMaxResults == 20

RECURSIVE NewRecords(_)
NewRecords(entries) ==
    IF entries = <<>> THEN <<>>
    ELSE IF Head(entries).tier = "new"
         THEN <<Head(entries).record>> \o NewRecords(Tail(entries))
         ELSE NewRecords(Tail(entries))

Max(S) == CHOOSE x \in S : \A y \in S : x >= y

WorkFaults == {"none", "upsert", "meta"}

\* step 2: the lower bound of the scan
WorkSinceUnix(processed, sinceHours) ==
    LET decoded == extractSinceUnixFromIDs(<<processed>>)
    IN  IF decoded # 0 THEN decoded
        ELSE IF GetLastFetchTime # 0 THEN GetLastFetchTime - SinceMargin
        ELSE now - sinceHours * 3600

\* step 7: the open records the scan did not return, as store-only entries
StoreOnly(recs, scanned) ==
    SelectSeq([i \in 1..Len(recs) |-> [id |-> recs[i].id, tier |-> "store"]],
              LAMBDA e : \A i \in 1..Len(scanned) : scanned[i].id # e.id)

\* each intermediate value is bound once, in the order the steps compute it
GetPendingWork(feed, maxPages, stopAfter, maxResults, fullScan, fault) ==
    \E processed \in {GetProcessedIDs(notifications)} :
    \E sinceUnix \in {WorkSinceUnix(processed, DefaultSinceHours)} :
    \E result \in {ScanSource(feed,
                     [processed |-> processed,
                      retryIDs |-> GetRetryIDs(notifications),
                      deletedCheckIDs |-> GetDeletedCheckIDs(notifications),
                      maxPages |-> maxPages,
                      stopAfter |-> IF fullScan THEN NoEarlyStop ELSE stopAfter,
                      sinceUnix |-> sinceUnix,
                      maxResults |-> maxResults])} :
    \E upserted \in {UpsertRows(notifications, NewRecords(result.Notifications), now)} :
    LET newest == Max({feed[i].NotifTimeUnix :
                         i \in {k \in 1..Len(feed) : feed[k].ID \in result.ScannedIDs}})
    IN  /\ notifications' = IF fault \in {"read", "upsert"}
                            THEN notifications ELSE upserted
        /\ meta' = IF fault = "none" /\ result.TotalScanned > 0
                   THEN MetaUpsert(meta, Sprintf(newest)) ELSE meta
        /\ IF fault # "none"
           THEN last' = [op |-> "GetPendingWork", err |-> TRUE]
           ELSE \E recs \in GetPendingRecords(upserted) :
                   last' = [op |-> "GetPendingWork", err |-> FALSE,
                            entries |-> Tagged(result.Notifications)
                                           \o StoreOnly(recs, result.Notifications),
                            listedIDs |->
                               {result.Notifications[i].id :
                                   i \in 1..Len(result.Notifications)},
                            scannedIDs |-> result.ScannedIDs,
                            hasMore |-> result.HasMore,
                            totalSkipped |-> result.TotalSkipped,
                            totalTooOld |-> result.TotalTooOld,
                            totalNew |-> result.TotalNew,
                            totalRetry |-> result.TotalRetry,
                            totalDeletedRecheck |-> result.TotalDeletedRecheck]
        /\ UNCHANGED <<now, retryCalls>>
        /\ UNCHANGED callVars

----------------------------------------------------------------------------
(* handleGetUnprocessedNotifications *)

\* retry_ids the scan did not return, collected against the processed set
MissingAgainstProcessed(retryIDs, processedIDs, listed) ==
    {id \in retryIDs : id \notin processedIDs}

\* the loop over retryIDs that collects missingRetryIDs: listed is
\* result.Notifications, seenIDs its NotificationID values
MissingRetryIDs(retryIDs, processedIDs, listed) ==
    LET seenIDs == {listed[i].id : i \in 1..Len(listed)}
    IN  {id \in retryIDs : id \notin seenIDs}

\* values of processed_ids and retry_ids
IDArgs ==
    {NilArg,
     ArrayArg(<< <<"1">> >>),
     ArrayArg(<< <<"2">> >>),
     StringArg(<<"1", ",", "2">>),
     ArrayArg(<< <<"2">>, <<>>, <<"1">> >>),
     StringArg(<<"2", ",", " ", "n", "7">>)}

\* stopAfterConsecutive one short of 5
StopAfterOneShort(fullScan) ==
    IF fullScan THEN NoEarlyStop ELSE DefaultStopAfter - 1

\* stopAfterConsecutive left at 5 whatever full_scan says
StopAfterIgnoringFullScan(fullScan) == DefaultStopAfter

\* stopAfterConsecutive: 5, or 999999 when full_scan is set
StopAfterConsecutive(fullScan) ==
    IF fullScan THEN NoEarlyStop ELSE DefaultStopAfter

\* args: processed_ids, retry_ids, max_pages, full_scan, since_hours,
\* max_results; a number that is absent reads as 0. The service call fails
\* when fault is "source".
handleGetUnprocessedNotifications(args, feed, fault) ==
    \E processedIDs \in {parseIDSet(args.processed_ids)} :
    \E retryIDs \in {parseIDSet(args.retry_ids)} :
    \E decoded \in {extractSinceUnixFromIDs(<<processedIDs, retryIDs>>)} :
    LET maxPages == IF args.max_pages <= 0 THEN DefaultMaxPages ELSE args.max_pages
        stopAfterConsecutive == StopAfterConsecutive(args.full_scan)
        sinceHours == IF args.since_hours <= 0 THEN DefaultSinceHours ELSE args.since_hours
        sinceUnix == IF decoded = 0 THEN now - sinceHours * 3600 ELSE decoded
        maxResults == IF args.max_results <= 0 THEN DefaultMaxResults ELSE args.max_results
    IN
    \E result \in {ScanSource(feed,
                     [processed |-> processedIDs, retryIDs |-> retryIDs,
                      deletedCheckIDs |-> {}, maxPages |-> maxPages,
                      stopAfter |-> stopAfterConsecutive,
                      sinceUnix |-> sinceUnix, maxResults |-> maxResults])} :
    LET listed == Tagged(result.Notifications)
    IN  /\ last' = IF fault = "source"
                   THEN [op |-> "handleGetUnprocessedNotifications",
                         IsError |-> TRUE]
                   ELSE [op |-> "handleGetUnprocessedNotifications",
                         IsError |-> FALSE,
                         feed |-> feed,
                         maxPages |-> maxPages,
                         fullScan |-> args.full_scan,
                         sinceHours |-> args.since_hours,
                         sinceUnix |-> sinceUnix,
                         processedIDs |-> processedIDs,
                         retryIDs |-> retryIDs,
                         notifications |-> listed,
                         missingRetryIDs |->
                            MissingRetryIDs(retryIDs, processedIDs, listed),
                         hasMore |-> result.HasMore,
                         pagesScanned |-> result.PagesScanned,
                         totalScanned |-> result.TotalScanned,
                         totalSkipped |-> result.TotalSkipped,
                         totalTooOld |-> result.TotalTooOld,
                         totalNew |-> result.TotalNew,
                         totalRetry |-> result.TotalRetry]
        /\ UNCHANGED <<notifications, meta, now, retryCalls>>
        /\ UNCHANGED callVars

HandlerArgs ==
    [processed_ids : IDArgs, retry_ids : IDArgs, max_pages : {0, 1},
     full_scan : BOOLEAN, since_hours : {0, 1}, max_results : {0, 1}]

Thresholds == 0..(MaxRetryCalls + 1)

\* the store's methods called in any order, within one second of the clock
Next ==
    \/ \E records \in Batches, fault \in UpsertFaults :
          UpsertNotifications(records, fault)
    \/ \E id \in IDs, status \in MarkStatuses, replyContent \in ReplyContents,
          fault \in MarkFaults :
          MarkResult(id, status, replyContent, fault)
    \/ \E maxRetries \in Thresholds, fault \in ExecFaults :
          AutoSkipExcessiveRetries(maxRetries, fault)

Spec == Init /\ [][Next]_vars

\* outcomes a caller reports through mark_result
ReportStatuses == {StatusReplied, StatusSkipped, StatusRetry, StatusDeletedCheck}

\* the reconciler at work: scans, and the outcomes reported between them
NextWork ==
    \/ \E feed \in Feeds, maxPages \in 1..MaxArg, maxResults \in 1..MaxArg,
          fullScan \in BOOLEAN, fault \in WorkFaults :
          GetPendingWork(feed, maxPages, 1, maxResults, fullScan, fault)
    \/ \E id \in IDs, status \in ReportStatuses :
          MarkResult(id, status, "ok", "none")

SpecWork == Init /\ [][NextWork]_vars

\* the tool handler called with any arguments while the clock runs and the
\* last fetch time is set; the handler writes nothing a later call reads, so
\* a call that follows a call is left out
NextHandler ==
    \/ Tick
    \/ \E unixSec \in Times : SetLastFetchTime(unixSec, "none")
    \/ /\ last.op # "handleGetUnprocessedNotifications"
       /\ \E feed \in Feeds, fault \in {"none", "source"}, args \in HandlerArgs :
             handleGetUnprocessedNotifications(args, feed, fault)

SpecHandler == Init /\ [][NextHandler]_vars

\* longest source of a scan that is followed item by item
MaxScanFeed == 8

\* the IDs of such a source, newest first
ScanTimeline == [i \in 1..MaxScanFeed |-> <<DigitChars[i + 1]>>]

ScanFeeds ==
    {[i \in 1..n |-> NotificationRecord(ScanTimeline[i], "a")] : n \in 0..MaxScanFeed}

\* processed_ids as an array of any of these IDs; max_pages absent, 2, or
\* as many as the source is long
ScanArgs ==
    [processed_ids : {ArrayArg(SelectSeq(ScanTimeline, LAMBDA id : id \in S)) :
                         S \in SUBSET {ScanTimeline[i] : i \in 1..MaxScanFeed}},
     retry_ids : {NilArg}, max_pages : {0, 2, MaxScanFeed},
     full_scan : BOOLEAN, since_hours : {0}, max_results : {0}]

\* one call of the tool handler from the start, with any of these arguments
NextScan ==
    /\ last.op # "handleGetUnprocessedNotifications"
    /\ \E args \in ScanArgs, feed \in ScanFeeds :
          handleGetUnprocessedNotifications(args, feed, "none")

SpecScan == Init /\ [][NextScan]_vars

\* values SetLastFetchTime is called with: a time of the clock and a
\* negative one
FetchTimes == {XhsEpochSec + 1, 0 - SinceMargin}

\* the store's methods and the last fetch time while the clock runs; batches
\* hold one observation
NextClock ==
    \/ Tick
    \/ \E records \in {b \in Batches : Len(b) = 1} :
          UpsertNotifications(records, "none")
    \/ \E id \in IDs, status \in {StatusReplied, StatusRetry, StatusDeletedCheck} :
          MarkResult(id, status, "ok", "none")
    \/ \E maxRetries \in 1..MaxRetryCalls :
          AutoSkipExcessiveRetries(maxRetries, "none")
    \/ \E unixSec \in FetchTimes, fault \in ExecFaults :
          SetLastFetchTime(unixSec, fault)

SpecClock == Init /\ [][NextClock]_vars

\* values SetLastFetchTime is called with when the meta table is followed
MetaTimes == Times

\* the last fetch time set and read between calls on one record
NextMeta ==
    \/ Tick
    \/ \E unixSec \in MetaTimes, fault \in ExecFaults :
          SetLastFetchTime(unixSec, fault)
    \/ \E id \in IDs : UpsertNotifications(<<NotificationRecord(id, "a")>>, "none")
    \/ \E status \in {StatusRetry, StatusReplied} :
          MarkResult(<<"1">>, status, "ok", "none")
    \/ AutoSkipExcessiveRetries(1, "none")

SpecMeta == Init /\ [][NextMeta]_vars

----------------------------------------------------------------------------
(* extractSinceUnixFromIDs on its own: the ID sets are drawn at the start   *)
(* and the function is applied to them                                      *)

\* the sets the handler passes in its call, and most IDs in one set
MaxSets == 2
MaxSetSize == 2

\* IDs by ascending value, each with (xhsEpochMs + (ID >> 22)) / 1000 worked
\* out by hand: two small numbers, the last ID of millisecond 999 and the
\* first of millisecond 1000, one of second 61, and two IDs of 2025 one
\* second apart
DecodeSamples ==
    <<
       [id |-> <<" ", "7">>,
        unix |-> 1356998400],
       [id |-> <<"1", "2", "x">>,
        unix |-> 1356998400],
       [id |-> <<"4", "1", "9", "4", "3", "0", "3", "9", "9", "9">>,
        unix |-> 1356998400],
       [id |-> <<"4", "1", "9", "4", "3", "0", "4", "0", "0", "0">>,
        unix |-> 1356998401],
       [id |-> <<"2", "5", "5", "8", "5", "2", "5", "4", "4", "0", "0", "5">>,
        unix |-> 1356998461],
       [id |-> <<"1", "6", "7", "7", "7", "2", "2", "1", "1", "7", "8", "1", "2", "0", "0", "6", "9", "6", "9">>,
        unix |-> 1756998523],
       [id |-> <<"1", "6", "7", "7", "7", "2", "2", "1", "2", "2", "0", "0", "6", "2", "9", "8", "6", "2", "4">>,
        unix |-> 1756998524]
    >>

\* strings that hold no number, the number 0, or a number over 2^64 - 1
DecodeUnusable ==
    {<<>>,
     <<"0">>,
     <<"0", "0">>,
     <<"a", "b", "c">>,
     <<"-", "5">>,
     <<"x", "1">>,
     <<"1", "8", "4", "4", "6", "7", "4", "4", "0", "7", "3", "7", "0", "9", "5", "5", "1", "6", "1", "7">>}

DecodeTexts == {DecodeSamples[i].id : i \in 1..Len(DecodeSamples)} \cup DecodeUnusable

DecodeInputs ==
    SeqsUpTo({S \in SUBSET DecodeTexts : Cardinality(S) <= MaxSetSize}, MaxSets)

InitDecode ==
    /\ notifications = {}
    /\ meta = {}
    /\ now = XhsEpochSec + 1
    /\ retryCalls = [id \in IDs |-> 0]
    /\ last \in {[op |-> "call", sets |-> sets] : sets \in DecodeInputs}
    /\ Opened

Decode ==
    /\ last.op = "call"
    /\ last' = [op |-> "extractSinceUnixFromIDs", sets |-> last.sets,
                sinceUnix |-> extractSinceUnixFromIDs(last.sets)]
    /\ UNCHANGED <<notifications, meta, now, retryCalls>>
    /\ UNCHANGED callVars

SpecDecode == InitDecode /\ [][Decode]_vars

----------------------------------------------------------------------------
(* GetNotificationStore: storeOnce.Do runs the initialisation in the first   *)
(* caller, every other caller waits until it has returned                   *)

\* how the function passed to storeOnce.Do ends: os.MkdirAll fails, sql.Open
\* fails, migrate fails, or globalStore is set
InitOutcomes == {"ok", "mkdir", "open", "migrate"}

\* before the first call: globalStore is nil, storeOnce unused
InitOnce ==
    /\ notifications = {}
    /\ meta = {}
    /\ now = XhsEpochSec + 1
    /\ retryCalls = [id \in IDs |-> 0]
    /\ last = [op |-> "init"]
    /\ globalStore = Nil
    /\ storeOnce = "fresh"
    /\ mu = Unlocked
    /\ calls = [t \in Threads |-> Idle]

\* var initErr error
StoreCall(t) ==
    /\ calls[t].pc = "idle"
    /\ Len(calls[t].done) < MaxCalls
    /\ calls' = [calls EXCEPT ![t] =
                    [pc |-> "once", initErr |-> Nil, done |-> calls[t].done]]
    /\ UNCHANGED <<notifications, meta, now, retryCalls, last,
                   globalStore, storeOnce, mu>>

\* storeOnce.Do: the first caller runs the function, a caller that comes
\* while it runs waits, a caller that comes after it returned goes on
OnceDo(t) ==
    /\ calls[t].pc = "once"
    /\ storeOnce # "running"
    /\ storeOnce' = IF storeOnce = "fresh" THEN "running" ELSE storeOnce
    /\ calls' = [calls EXCEPT ![t].pc =
                    IF storeOnce = "fresh" THEN "init" ELSE "return"]
    /\ UNCHANGED <<notifications, meta, now, retryCalls, last, globalStore, mu>>

\* the function passed to storeOnce.Do: a failure is assigned to the
\* caller's initErr, a success to globalStore
OnceInit(t, outcome) ==
    /\ calls[t].pc = "init"
    /\ globalStore' = IF outcome = "ok" THEN TheStore ELSE globalStore
    /\ storeOnce' = "done"
    /\ calls' = [calls EXCEPT ![t].pc = "return",
                              ![t].initErr = IF outcome = "ok" THEN Nil ELSE outcome]
    /\ UNCHANGED <<notifications, meta, now, retryCalls, last, mu>>

\* if initErr != nil { return nil, initErr }; return globalStore, nil
StoreReturn(t) ==
    /\ calls[t].pc = "return"
    /\ calls' = [calls EXCEPT ![t] =
                    [pc |-> "idle",
                     done |-> Append(calls[t].done,
                                 IF calls[t].initErr # Nil
                                 THEN [store |-> Nil, err |-> calls[t].initErr]
                                 ELSE [store |-> globalStore, err |-> Nil])]]
    /\ UNCHANGED <<notifications, meta, now, retryCalls, last,
                   globalStore, storeOnce, mu>>

NextOnce ==
    \E t \in Threads :
       \/ StoreCall(t)
       \/ OnceDo(t)
       \/ \E outcome \in InitOutcomes : OnceInit(t, outcome)
       \/ StoreReturn(t)

SpecOnce == InitOnce /\ [][NextOnce]_vars

----------------------------------------------------------------------------
(* Goroutines calling the store at the same time. Every method starts with  *)
(* s.mu.Lock() and defers s.mu.Unlock(); the database runs one statement at *)
(* a time (SetMaxOpenConns(1)), so a statement is one step.                 *)

\* the calls a goroutine makes
Requests ==
    {[op |-> "MarkResult", id |-> <<"1">>, status |-> st, replyContent |-> "ok"] :
        st \in {StatusRetry, StatusReplied}}
    \cup {[op |-> "UpsertNotifications",
           records |-> <<NotificationRecord(<<"1">>, "a")>>]}
    \cup {[op |-> "AutoSkipExcessiveRetries", maxRetries |-> 1]}
    \cup {[op |-> "SetLastFetchTime", unixSec |-> t] : t \in Times}
    \cup {[op |-> "GetProcessedIDs"], [op |-> "GetPendingIDs"],
          [op |-> "GetLastFetchTime"]}

\* a Lock that never waits
CanLockAlways(m) == TRUE

\* s.mu.Lock() goes on when the mutex is unlocked
CanLock(m) == m = Unlocked

\* a goroutine calls a method; overlap tells whether another call was in
\* progress at that moment
Invoke(t, req) ==
    /\ calls[t].pc = "idle"
    /\ Len(calls[t].done) < MaxCalls
    /\ calls' = [calls EXCEPT ![t] =
                    [pc |-> "lock", req |-> req, ret |-> [err |-> Nil],
                     done |-> calls[t].done,
                     overlap |-> \E u \in Threads \ {t} : calls[u].pc # "idle"]]
    /\ UNCHANGED <<notifications, meta, now, retryCalls, last,
                   globalStore, storeOnce, mu>>

\* s.mu.Lock()
Lock(t) ==
    /\ calls[t].pc = "lock"
    /\ CanLock(mu)
    /\ mu' = t
    /\ calls' = [calls EXCEPT ![t].pc = "run"]
    /\ UNCHANGED <<notifications, meta, now, retryCalls, last,
                   globalStore, storeOnce>>

\* the call's statement, or its transaction; for MarkResult the UPDATE, and
\* when that matched no row the INSERT is still to come
Exec(t) ==
    LET req == calls[t].req
        rows == MarkRowsAffected(notifications, req.id)
    IN  /\ calls[t].pc = "run"
        /\ notifications' =
              CASE req.op = "MarkResult" ->
                      MarkUpdate(notifications, req.id, req.status,
                                 req.replyContent, now)
                [] req.op = "UpsertNotifications" ->
                      UpsertRows(notifications, req.records, now)
                [] req.op = "AutoSkipExcessiveRetries" ->
                      AutoSkipUpdate(notifications, req.maxRetries, now)
                [] OTHER -> notifications
        /\ meta' = IF req.op = "SetLastFetchTime"
                   THEN MetaUpsert(meta, Sprintf(req.unixSec)) ELSE meta
        /\ calls' = [calls EXCEPT
              ![t].pc = IF req.op = "MarkResult" /\ rows = 0
                        THEN "insert" ELSE "unlock",
              ![t].ret =
                 CASE req.op = "AutoSkipExcessiveRetries" ->
                         [err |-> Nil,
                          n |-> AutoSkipRowsAffected(notifications, req.maxRetries)]
                   [] req.op = "GetProcessedIDs" ->
                         [err |-> Nil, ids |-> GetProcessedIDs(notifications)]
                   [] req.op = "GetPendingIDs" ->
                         [err |-> Nil, ids |-> GetPendingIDs(notifications)]
                   [] req.op = "GetLastFetchTime" ->
                         [err |-> Nil, t |-> GetLastFetchTime]
                   [] OTHER -> [err |-> Nil]]
        /\ UNCHANGED <<now, retryCalls, last, globalStore, storeOnce, mu>>

\* the INSERT of MarkResult; id is the primary key, so it fails when a row
\* with the id has come in since the UPDATE
ExecInsert(t) ==
    LET req == calls[t].req
        taken == req.id \in RowIDs(notifications)
    IN  /\ calls[t].pc = "insert"
        /\ notifications' =
              IF taken THEN notifications
              ELSE MarkInsert(notifications, req.id, req.status,
                              req.replyContent, now)
        /\ calls' = [calls EXCEPT
              ![t].pc = "unlock",
              ![t].ret = [err |-> IF taken THEN "constraint" ELSE Nil]]
        /\ UNCHANGED <<meta, now, retryCalls, last, globalStore, storeOnce, mu>>

\* the deferred s.mu.Unlock(), and the return
Unlock(t) ==
    /\ calls[t].pc = "unlock"
    /\ mu' = Unlocked
    /\ calls' = [calls EXCEPT ![t] =
                    [pc |-> "idle",
                     done |-> Append(calls[t].done,
                                 [req |-> calls[t].req, ret |-> calls[t].ret,
                                  overlap |-> calls[t].overlap])]]
    /\ UNCHANGED <<notifications, meta, now, retryCalls, last,
                   globalStore, storeOnce>>

NextSerial ==
    \E t \in Threads :
       \/ \E req \in Requests : Invoke(t, req)
       \/ Lock(t)
       \/ Exec(t)
       \/ ExecInsert(t)
       \/ Unlock(t)

SpecSerial == Init /\ [][NextSerial]_vars

TypeOK ==
    /\ PrimaryKey(notifications)
    /\ RowIDs(notifications) \subseteq IDs
    /\ now \in Times

----------------------------------------------------------------------------
(* Properties of the store *)

RowsOf(rows, id) == {r \in rows : r.id = id}

Outcome(r) == <<r.status, r.reply_content, r.retry_count>>

\* C1: an UpsertNotifications call whose batch contains the ID of a replied or
\* skipped record leaves that record's status, reply_content and retry_count
\* as they were (a failed call leaves every record as it was).
ClosedStateImmutability ==
    [][last'.op = "UpsertNotifications" =>
         \A r \in notifications :
            (r.status \in ClosedStatuses /\ (last'.err \/ r.id \in last'.ids)) =>
               {Outcome(q) : q \in RowsOf(notifications', r.id)} = {Outcome(r)}]_vars

\* a replied record that was retried before has just been observed again
ClosedRecordRescanned ==
    /\ last.op = "UpsertNotifications" /\ ~last.err
    /\ \E r \in notifications :
          /\ r.id \in last.ids
          /\ r.status = StatusReplied
          /\ r.retry_count > 0
          /\ r.reply_content = "ok"

\* C2: in every store state, upserting any batch a second time (at the same
\* or a later time) yields the very rows the first upsert left, and neither
\* the store nor the result of an upsert holds two rows with one ID.
IdempotentRescan ==
    /\ PrimaryKey(notifications)
    /\ \A records \in Batches :
          LET once == UpsertRows(notifications, records, now)
          IN  /\ PrimaryKey(once)
              /\ \A t \in Times :
                    t >= now => UpsertRows(once, records, t) = once

\* a batch with both IDs went in while one of them already had a record in
\* another status
BatchUpsertedOverExisting ==
    /\ last.op = "UpsertNotifications" /\ ~last.err
    /\ last.ids = IDs
    /\ RowIDs(notifications) = IDs
    /\ \E r \in notifications : r.status = StatusRetry
    /\ \E r \in notifications : r.status = StatusPending /\ r.feed_id # ""

\* C3: every record's retry_count is the number of MarkResult calls with
\* status retry that succeeded on its ID.
RetryAccounting ==
    \A r \in notifications : r.retry_count = retryCalls[r.id]

EntriesOf(entries, id) == {i \in 1..Len(entries) : entries[i].id = id}

ClosedIDs(rows) == {r.id : r \in {x \in rows : x.status \in ClosedStatuses}}

\* C4: after every get_pending_work call that returns a list, each record
\* that is pending, retry or deleted_check in the store at the end of the call
\* is the ID of exactly one entry of the list; an entry of a stored open
\* record is a store-only entry exactly when the truncated scan result does
\* not hold its ID.
MergeCompleteness ==
    [][(last'.op = "GetPendingWork" /\ ~last'.err) =>
         \A r \in notifications' :
            r.status \in OpenStatuses =>
               /\ Cardinality(EntriesOf(last'.entries, r.id)) = 1
               /\ \A i \in EntriesOf(last'.entries, r.id) :
                     (last'.entries[i].tier = "store") <=>
                        (r.id \notin last'.listedIDs)]_vars

\* a call returned a scanned entry followed by a store-only entry: the open
\* record the scan did not list
ScannedAndStoreOnlyMerged ==
    /\ last.op = "GetPendingWork" /\ ~last.err
    /\ Len(last.entries) = 2
    /\ last.entries[1].tier # "store"
    /\ last.entries[2].tier = "store"
    /\ \A r \in notifications : r.status \in OpenStatuses

\* C5: in every get_pending_work result no entry has the ID of a record that
\* was replied or skipped when the call started; the scanned items with such
\* an ID are the ones counted in total_skipped, and none of them is counted
\* as new, retry or deleted_check.
NoClosedHandedOut ==
    [][(last'.op = "GetPendingWork" /\ ~last'.err) =>
         LET closed == ClosedIDs(notifications)
         IN  /\ \A i \in 1..Len(last'.entries) :
                   last'.entries[i].id \notin closed
             /\ last'.totalSkipped = Cardinality(last'.scannedIDs \cap closed)
             /\ last'.totalNew + last'.totalRetry + last'.totalDeletedRecheck
                   + last'.totalTooOld
                   = Cardinality(last'.scannedIDs \ closed)]_vars

\* a full scan passed a skipped record, counted it, and returned the other
\* item
ClosedItemSkippedInScan ==
    /\ last.op = "GetPendingWork" /\ ~last.err
    /\ last.totalSkipped = 1
    /\ last.scannedIDs = IDs
    /\ Len(last.entries) = 1
    /\ \E r \in notifications :
          r.status = StatusSkipped /\ r.id \in last.scannedIDs

\* C6 as stated: a replied or skipped record keeps its status in every step
\* of the store.
TerminalStates ==
    [][\A r \in notifications :
          r.status \in ClosedStatuses =>
             \A q \in RowsOf(notifications', r.id) : q.status = r.status]_vars

\* C6 amended: UpsertNotifications and AutoSkipExcessiveRetries never change
\* the status of a replied or skipped record.
TerminalUnderScanAndSweep ==
    [][last'.op \in {"UpsertNotifications", "AutoSkipExcessiveRetries"} =>
         \A r \in notifications :
            r.status \in ClosedStatuses =>
               {q.status : q \in RowsOf(notifications', r.id)} = {r.status}]_vars

\* a sweep that skipped a record passed over a replied one with as many
\* retries
SweepPassedClosedRecord ==
    /\ last.op = "AutoSkipExcessiveRetries" /\ last.n >= 1
    /\ \E r \in notifications :
          r.status = StatusReplied /\ r.retry_count = MaxRetryCalls

RetryVisibility ==
    (last.op = "handleGetUnprocessedNotifications" /\ ~last.IsError) =>
       LET seen == {last.notifications[i].id : i \in 1..Len(last.notifications)}
       IN  /\ \A id \in last.retryIDs :
                (id \in seen) <=> (id \notin last.missingRetryIDs)
           /\ last.missingRetryIDs \subseteq last.retryIDs

\* of two retry IDs one came back in the list and the other was reported
\* missing
RetryListedAndRetryMissing ==
    /\ last.op = "handleGetUnprocessedNotifications" /\ ~last.IsError
    /\ \E id \in last.retryIDs :
          \E i \in 1..Len(last.notifications) :
             last.notifications[i].id = id /\ last.notifications[i].tier = "retry"
    /\ last.missingRetryIDs # {}

\* C9: no step of the store removes an ID from the set of IDs that have a
\* record.
RecordExistenceMonotonic ==
    [][RowIDs(notifications) \subseteq RowIDs(notifications')]_vars

\* both IDs still have their record after a sweep that skipped both
BothRecordsSurviveSweep ==
    /\ last.op = "AutoSkipExcessiveRetries" /\ last.n = 2
    /\ RowIDs(notifications) = IDs

\* C10: a MarkResult call that returns no error leaves exactly one record for
\* its ID, in the given status and with the given reply_content, created by
\* the call when the ID had none; no other record appears or changes. A call
\* that returns an error changes nothing.
LenientMarkResult ==
    [][last'.op = "MarkResult" =>
         IF last'.err THEN notifications' = notifications
         ELSE LET mine == RowsOf(notifications', last'.id)
              IN  /\ Cardinality(mine) = 1
                  /\ \A q \in mine :
                        /\ q.status = last'.status
                        /\ q.reply_content = last'.replyContent
                  /\ \A r \in notifications :
                        r.id # last'.id => r \in notifications'
                  /\ RowIDs(notifications') =
                        RowIDs(notifications) \cup {last'.id}
                  /\ Cardinality(notifications') =
                        Cardinality(RowIDs(notifications'))]_vars

\* MarkResult has just created a deleted_check record for an ID never
\* scanned, next to a record that came from a scan
RecordCreatedByMarkResult ==
    /\ last.op = "MarkResult" /\ ~last.err
    /\ last.status = StatusDeletedCheck
    /\ \E q \in notifications :
          /\ q.id = last.id
          /\ q.status = StatusDeletedCheck
          /\ q.feed_id = ""
          /\ q.retry_count = 0
    /\ \E r \in notifications : r.id # last.id /\ r.feed_id # ""

\* C11: in every state of the store every record's status is one of pending,
\* retry, deleted_check, replied and skipped, whatever status MarkResult is
\* called with.
StatusDomain ==
    \A r \in notifications : r.status \in OpenStatuses \cup ClosedStatuses

\* C12: a MarkResult call whose status is none of replied, skipped, retry and
\* deleted_check returns an error, and a call that returns an error leaves
\* the records and the last fetch time as they were.
InvalidStatusRejected ==
    [][last'.op = "MarkResult" =>
         IF last'.err THEN notifications' = notifications /\ meta' = meta
         ELSE last'.status \in ReportStatuses]_vars

\* C13: in every step a record's retry_count grows by exactly 1 when the step
\* is a successful MarkResult with status retry on the record's ID and stays
\* as it is in every other step (UpsertNotifications, MarkResult with another
\* status or on another ID, AutoSkipExcessiveRetries, SetLastFetchTime); no
\* retry_count is negative.
RetryCountFrame ==
    [][/\ \A r \in notifications :
             \A q \in RowsOf(notifications', r.id) :
                q.retry_count =
                   IF /\ last'.op = "MarkResult" /\ ~last'.err
                      /\ last'.status = StatusRetry /\ last'.id = r.id
                   THEN r.retry_count + 1 ELSE r.retry_count
       /\ \A q \in notifications' : q.retry_count >= 0]_vars

\* a second retry was just counted on one record while the other, retried
\* once, has moved on to replied with its count kept, and a fetch time is set
SecondRetryCounted ==
    /\ last.op = "MarkResult" /\ ~last.err /\ last.status = StatusRetry
    /\ \E r \in notifications : r.id = last.id /\ r.retry_count = 2
    /\ \E r \in notifications :
          r.id # last.id /\ r.retry_count = 1 /\ r.status = StatusReplied
    /\ meta # {}

\* C14 as stated: the last fetch time the store returns never decreases.
LastFetchTimeMonotonic ==
    [][LastFetchTimeOf(meta') >= LastFetchTimeOf(meta)]_vars

\* C14 amended: GetLastFetchTime returns 0 while no value was set; after a
\* successful SetLastFetchTime it returns the value of that call, larger or
\* smaller than the one before; no other step changes what it returns.
LastFetchTimePersisted ==
    [][/\ meta = {} => LastFetchTimeOf(meta) = 0
       /\ LastFetchTimeOf(meta') =
             IF last'.op = "SetLastFetchTime" /\ ~last'.err
             THEN last'.unixSec ELSE LastFetchTimeOf(meta)]_vars

\* a time before that of the clock was just stored and is what the store
\* returns
EarlierFetchTimeStored ==
    /\ last.op = "SetLastFetchTime" /\ ~last.err
    /\ last.unixSec < now
    /\ GetLastFetchTime = last.unixSec
    /\ notifications # {}

\* C20: in every step a record that exists keeps its created_at; a record the
\* step creates (UpsertNotifications, or MarkResult on an ID without record)
\* has created_at and updated_at equal to the time of the call; a record the
\* step changes, and the record of a successful MarkResult, has updated_at
\* equal to the time of the call; UpsertNotifications leaves the records it
\* finds as they are; and updated_at >= created_at in every record.
Timestamps ==
    [][/\ \A r \in notifications :
             \A q \in RowsOf(notifications', r.id) :
                /\ q.created_at = r.created_at
                /\ q # r => q.updated_at = now
                /\ (last'.op = "MarkResult" /\ ~last'.err /\ last'.id = r.id) =>
                      q.updated_at = now
                /\ last'.op = "UpsertNotifications" => q = r
       /\ \A q \in notifications' :
             /\ q.id \notin RowIDs(notifications) =>
                   q.created_at = now /\ q.updated_at = now
             /\ q.updated_at >= q.created_at]_vars

\* an upsert has just found a record that was created at the first second
\* and changed at the second
ChangedRecordRescanned ==
    /\ last.op = "UpsertNotifications" /\ ~last.err
    /\ \E r \in notifications :
          /\ r.id \in last.ids
          /\ r.created_at < r.updated_at
          /\ r.updated_at = now

\* C15: the sinceUnix of a handleGetUnprocessedNotifications call is the time
\* decoded from processed_ids and retry_ids when that is not 0; else the last
\* fetch time minus 300 s when one is stored; else now - since_hours * 3600,
\* with since_hours 48 when it is not positive.
ScanLowerBound ==
    (last.op = "handleGetUnprocessedNotifications" /\ ~last.IsError) =>
       last.sinceUnix =
          LET decoded == extractSinceUnixFromIDs(<<last.processedIDs, last.retryIDs>>)
              hours == IF last.sinceHours <= 0 THEN 48 ELSE last.sinceHours
          IN  IF decoded # 0 THEN decoded
              ELSE IF GetLastFetchTime # 0 THEN GetLastFetchTime - 300
              ELSE now - hours * 3600

\* the samples among the IDs of a call, by their place in DecodeSamples
SamplesIn(sets) ==
    {i \in 1..Len(DecodeSamples) :
        \E k \in 1..Len(sets) : DecodeSamples[i].id \in sets[k]}

DecoderSentinel ==
    last.op = "extractSinceUnixFromIDs" =>
       /\ (last.sinceUnix = 0) <=> (SamplesIn(last.sets) = {})
       /\ last.sinceUnix =
             extractSinceUnixFromIDs(
                [k \in 1..Len(last.sets) |-> last.sets[k] \ DecodeUnusable])

\* two sets of strings without a usable number gave 0
NothingToDecode ==
    /\ last.op = "extractSinceUnixFromIDs"
    /\ Len(last.sets) = 2
    /\ last.sets[1] = {<<"0">>, <<"x", "1">>}
    /\ last.sets[2] = {<<"-", "5">>,
                       <<"1", "8", "4", "4", "6", "7", "4", "4", "0", "7",
                         "3", "7", "0", "9", "5", "5", "1", "6", "1", "7">>}
    /\ last.sinceUnix = 0

\* the first place of the feed that ends a run of n items of closed, or one
\* past the feed when there is none
RunEnd(feed, closed, n) ==
    LET ends == {k \in n..Len(feed) : \A j \in (k - n + 1)..k : feed[j].ID \in closed}
    IN  IF ends = {} THEN Len(feed) + 1
        ELSE CHOOSE k \in ends : \A j \in ends : k <= j

Least(S) == CHOOSE x \in S : \A y \in S : x <= y

\* C18: with full_scan false a scan ends early exactly at the item that
\* completes an unbroken run of stop_after_consecutive_closed (5 from the
\* handler) closed items, an item that is not closed starting the count
\* again, and not when that many closed items were seen in all; it never
\* reads more than max_pages pages.
EarlyStopRule ==
    (last.op = "handleGetUnprocessedNotifications" /\ ~last.IsError) =>
       /\ last.pagesScanned <= last.maxPages
       /\ last.totalScanned <= last.maxPages * PageSize
       /\ ~last.fullScan =>
             last.totalScanned =
                Least({Len(last.feed), last.maxPages * PageSize,
                       RunEnd(last.feed, last.processedIDs, 5)})

\* closed, open, then five closed items and one more: the fifth closed item
\* seen was the sixth of the feed, the scan ended at the seventh
StoppedAtRunNotTotal ==
    /\ last.op = "handleGetUnprocessedNotifications"
    /\ ~last.IsError
    /\ ~last.fullScan
    /\ last.maxPages * PageSize >= 8
    /\ Len(last.feed) = 8
    /\ last.processedIDs = {<<"1">>, <<"3">>, <<"4">>, <<"5">>, <<"6">>, <<"7">>}
    /\ last.totalScanned = 7
    /\ last.totalSkipped = 6

DisplayFields(r) ==
    <<r.feed_id, r.xsec_token, r.comment_id, r.parent_comment_id,
      r.comment_content, r.user_id, r.user_nickname, r.note_title,
      r.relation_type, r.notif_time_unix>>

\* C21: once a record exists, no step (MarkResult, AutoSkipExcessiveRetries,
\* a later UpsertNotifications carrying other values for its ID) changes its
\* feed id, xsec token, comment id, parent, content, user id, nickname, note
\* title, relation type or notification time; only status, retry_count,
\* reply_content and updated_at may change.
DisplayFieldsImmutable ==
    [][\A r \in notifications : \A q \in notifications' :
          q.id = r.id =>
             /\ DisplayFields(q) = DisplayFields(r)
             /\ q.created_at = r.created_at]_vars

\* a record that MarkResult created with empty display fields was in a later
\* batch, whose records all carry a feed id, and kept its empty fields
BlankRecordRescanned ==
    /\ last.op = "UpsertNotifications"
    /\ ~last.err
    /\ \E r \in notifications :
          /\ r.id \in last.ids
          /\ r.feed_id = ""
          /\ r.notif_time_unix = 0
          /\ r.status = StatusRetry

\* C22: GetPendingRecords returns exactly the records whose status is
\* pending, retry or deleted_check, each once, by notification time
\* descending; GetPendingIDs returns the IDs of the same records, each with
\* the record's status.
OpenRecordsQuery ==
    LET open == {r \in notifications : r.status \in OpenStatuses}
        ids == GetPendingIDs(notifications)
    IN  /\ GetPendingRecords(notifications) # {}
        /\ \A recs \in GetPendingRecords(notifications) :
              /\ {recs[i] : i \in 1..Len(recs)} = open
              /\ Len(recs) = Cardinality(open)
              /\ \A i \in 1..(Len(recs) - 1) :
                    recs[i].notif_time_unix >= recs[i + 1].notif_time_unix
        /\ DOMAIN ids = {r.id : r \in open}
        /\ \A r \in open : ids[r.id] = r.status

\* a retry record seen in a scan and a deleted_check record created by
\* MarkResult, whose notification time is 0: the query lists the retry
\* record first
OpenRecordsInTimeOrder ==
    \E r1, r2 \in notifications :
       /\ r1.status = StatusRetry
       /\ r2.status = StatusDeletedCheck
       /\ r1.notif_time_unix > r2.notif_time_unix
       /\ GetPendingRecords(notifications) = {<<r1, r2>>}
       /\ GetPendingIDs(notifications)[r2.id] = StatusDeletedCheck

\* the count a map of Stats gives a status, 0 when the status is absent
CountOf(counts, st) == IF st \in DOMAIN counts THEN counts[st] ELSE 0

RECURSIVE SumOf(_, _)
SumOf(counts, keys) ==
    IF keys = {} THEN 0
    ELSE LET k == CHOOSE x \in keys : TRUE
         IN  counts[k] + SumOf(counts, keys \ {k})

\* C23: in every state of the store Stats gives each status that has a
\* record the number of records in it and leaves out the others; its counts
\* add up to the number of records, and agree with the sizes of the ID sets
\* of GetRetryIDs, GetDeletedCheckIDs, GetProcessedIDs and GetPendingIDs.
StatsCounts ==
    LET counts == Stats(notifications)
    IN  /\ DOMAIN counts = {r.status : r \in notifications}
        /\ \A st \in DOMAIN counts :
              /\ counts[st] > 0
              /\ counts[st] = Cardinality({id \in IDs :
                                 \E r \in notifications : r.id = id /\ r.status = st})
        /\ SumOf(counts, DOMAIN counts) = Cardinality(notifications)
        /\ CountOf(counts, "retry") = Cardinality(GetRetryIDs(notifications))
        /\ CountOf(counts, "deleted_check") =
              Cardinality(GetDeletedCheckIDs(notifications))
        /\ CountOf(counts, "replied") + CountOf(counts, "skipped") =
              Cardinality(GetProcessedIDs(notifications))
        /\ CountOf(counts, "pending") + CountOf(counts, "retry")
              + CountOf(counts, "deleted_check") =
              Cardinality(DOMAIN GetPendingIDs(notifications))

\* one skipped and one retry record: Stats counts one of each and nothing
\* else
OneSkippedOneRetry ==
    /\ Cardinality(notifications) = 2
    /\ Stats(notifications) = ("skipped" :> 1) @@ ("retry" :> 1)
    /\ last.op = "AutoSkipExcessiveRetries"
    /\ last.n = 1

\* C24: every record UpsertNotifications inserts starts with status pending,
\* retry_count 0 and empty reply_content, whatever Status, RetryCount and
\* ReplyContent the input record carries; on an empty store a batch of n
\* distinct IDs leaves exactly n records, all pending.
FirstObservationPending ==
    [][(last'.op = "UpsertNotifications" /\ ~last'.err) =>
          /\ \A id \in last'.ids \ RowIDs(notifications) :
                \E q \in notifications' :
                   /\ q.id = id
                   /\ q.status = "pending"
                   /\ q.retry_count = 0
                   /\ q.reply_content = ""
          /\ notifications = {} =>
                /\ Cardinality(notifications') = Cardinality(last'.ids)
                /\ \A q \in notifications' : q.status = "pending"]_vars

\* a batch of two records that carry Status replied, RetryCount 3 and a
\* reply (the ones with feed id "feed-b") left two pending records
RepliedInputStoredPending ==
    /\ last.op = "UpsertNotifications"
    /\ ~last.err
    /\ Cardinality(last.ids) = 2
    /\ Cardinality(notifications) = 2
    /\ \A r \in notifications :
          /\ r.id \in last.ids
          /\ r.feed_id = "feed-b"
          /\ r.status = StatusPending
          /\ r.retry_count = 0
          /\ r.reply_content = ""

\* C25: an UpsertNotifications call that returns an error (Begin, Prepare,
\* an Exec of the batch or Commit failed) leaves the store as it was, so no
\* record of the batch is there that was not there before; a call that
\* returns success leaves a record for every ID of the batch.
UpsertBatchAtomic ==
    [][last'.op = "UpsertNotifications" =>
          IF last'.err
          THEN /\ notifications' = notifications
               /\ meta' = meta
          ELSE last'.ids \subseteq RowIDs(notifications')]_vars

\* an Exec of a batch failed on a store that held one replied record: the
\* record is all the store holds
FailedBatchLeftNoRecord ==
    /\ last.op = "UpsertNotifications"
    /\ last.err
    /\ last.fault = "exec"
    /\ Cardinality(notifications) = 1
    /\ \A r \in notifications : r.status = StatusReplied /\ r.feed_id = "feed-a"

\* C27: in every state of the store the IDs of GetPendingIDs and those of
\* GetProcessedIDs have no ID in common and together are the IDs of all
\* records; GetRetryIDs and GetDeletedCheckIDs have no ID in common and are
\* both among the IDs of GetPendingIDs.
OpenClosedPartition ==
    LET pendingIDs == DOMAIN GetPendingIDs(notifications)
        processedIDs == GetProcessedIDs(notifications)
        retryIDs == GetRetryIDs(notifications)
        deletedCheckIDs == GetDeletedCheckIDs(notifications)
    IN  /\ pendingIDs \cap processedIDs = {}
        /\ pendingIDs \cup processedIDs = RowIDs(notifications)
        /\ retryIDs \cap deletedCheckIDs = {}
        /\ retryIDs \subseteq pendingIDs
        /\ deletedCheckIDs \subseteq pendingIDs

\* C28: every call of GetNotificationStore, from any number of callers one
\* after the other or at the same time, returns a store and a nil error or a
\* nil store and an error; all calls that succeed return the same store, and
\* when the initialisation failed every call reports an error.
StoreHandleAcquisition ==
    LET returned == UNION {{calls[t].done[i] : i \in 1..Len(calls[t].done)} :
                              t \in Threads}
    IN  /\ \A r \in returned :
              \/ r.store # Nil /\ r.err = Nil
              \/ r.store = Nil /\ r.err # Nil
        /\ \A r1, r2 \in returned :
              (r1.store # Nil /\ r2.store # Nil) => r1.store = r2.store
        /\ \A r1, r2 \in returned : r1.err # Nil => r2.err # Nil

\* a call run alone on the tables st: the tables after it and what it returns
Alone(st, req) ==
    CASE req.op = "MarkResult" ->
            [notifications |->
                IF \E r \in st.notifications : r.id = req.id
                THEN MarkUpdate(st.notifications, req.id, req.status,
                                req.replyContent, now)
                ELSE MarkInsert(st.notifications, req.id, req.status,
                                req.replyContent, now),
             meta |-> st.meta, ret |-> [err |-> Nil]]
      [] req.op = "UpsertNotifications" ->
            [notifications |-> UpsertRows(st.notifications, req.records, now),
             meta |-> st.meta, ret |-> [err |-> Nil]]
      [] req.op = "AutoSkipExcessiveRetries" ->
            [notifications |-> AutoSkipUpdate(st.notifications, req.maxRetries, now),
             meta |-> st.meta,
             ret |-> [err |-> Nil,
                      n |-> AutoSkipRowsAffected(st.notifications, req.maxRetries)]]
      [] req.op = "SetLastFetchTime" ->
            [notifications |-> st.notifications,
             meta |-> MetaUpsert(st.meta, Sprintf(req.unixSec)),
             ret |-> [err |-> Nil]]
      [] req.op = "GetProcessedIDs" ->
            [notifications |-> st.notifications, meta |-> st.meta,
             ret |-> [err |-> Nil, ids |-> GetProcessedIDs(st.notifications)]]
      [] req.op = "GetPendingIDs" ->
            [notifications |-> st.notifications, meta |-> st.meta,
             ret |-> [err |-> Nil, ids |-> GetPendingIDs(st.notifications)]]
      [] req.op = "GetLastFetchTime" ->
            [notifications |-> st.notifications, meta |-> st.meta,
             ret |-> [err |-> Nil, t |-> LastFetchTimeOf(st.meta)]]

\* the calls returned so far, the first taken[t] of goroutine t left out,
\* can be run one after the other from the tables st, each goroutine's in its
\* own order, so that each returns what it returned and the tables end as
\* they are
RECURSIVE InSomeOrder(_, _)
InSomeOrder(st, taken) ==
    IF \A t \in Threads : taken[t] = Len(calls[t].done)
    THEN st.notifications = notifications /\ st.meta = meta
    ELSE \E t \in {u \in Threads : taken[u] < Len(calls[u].done)} :
            LET c == calls[t].done[taken[t] + 1]
                after == Alone(st, c.req)
            IN  /\ after.ret = c.ret
                /\ InSomeOrder([notifications |-> after.notifications,
                                meta |-> after.meta],
                               [taken EXCEPT ![t] = @ + 1])

\* C26: whatever way the steps of calls made at the same time fall, the
\* calls return, and the tables end, as if the calls had run one after the
\* other in some order; while a call is between s.mu.Lock() and its return
\* (so between the UPDATE of MarkResult and its INSERT) no other call is;
\* every MarkResult succeeds and the table holds one record per ID.
StoreSerialized ==
    /\ \A t, u \in Threads :
          (calls[t].pc \in {"run", "insert", "unlock"} /\ u # t) =>
             /\ mu = t
             /\ calls[u].pc \in {"idle", "lock"}
    /\ \A t \in Threads : \A i \in 1..Len(calls[t].done) :
          calls[t].done[i].ret.err = Nil
    /\ PrimaryKey(notifications)
    /\ (\A t \in Threads : calls[t].pc = "idle") =>
          InSomeOrder([notifications |-> {}, meta |-> {}],
                      [t \in Threads |-> 0])

\* two MarkResult calls on an ID without record, the second made while the
\* first was in progress: both returned nil and the store holds one record,
\* inserted by one call and updated by the other
ConcurrentMarksOneRecord ==
    /\ \A t \in Threads :
          /\ calls[t].pc = "idle"
          /\ Len(calls[t].done) = 1
          /\ calls[t].done[1].req.op = "MarkResult"
          /\ calls[t].done[1].req.status = StatusRetry
          /\ calls[t].done[1].ret.err = Nil
    /\ \E t \in Threads : calls[t].done[1].overlap
    /\ Cardinality(notifications) = 1
    /\ \A r \in notifications : r.status = StatusRetry /\ r.retry_count = 1

====
